---- MODULE Spec2Model ----
(***************************************************************************)
(* Model of the MFA enrolment function (supabase/functions/mfa-setup), of  *)
(* the MFA gate of the ai-tutor and investment-recommendations functions   *)
(* and of the step-gated login / signup flow of the Auth page.             *)
(*                                                                         *)
(* Request handlers run concurrently.  A handler is cut at its awaits on   *)
(* the shared store: one action is one store access together with the      *)
(* local computation that follows it up to the next access or the response.*)
(*                                                                         *)
(* Environment: row reads return the stored row; a call whose result the   *)
(* code inspects has every outcome the code distinguishes; a mutating call *)
(* whose result the code discards (update, signOut) may fail silently.     *)
(***************************************************************************)
EXTENDS Integers, Sequences, FiniteSets, Bags, TLC

----------------------------------------------------------------------------
(* Bounds of the model *)

\* number of distinct TOTP seeds that OTPAuth.Secret can draw
NumSecrets == 2
\* largest byte value of the constant-byte nonces getRandomValues can draw
MaxIvByte == 0
\* number of distinct one-time codes (stands for 10^digits)
CodeSpace == 4
\* last 30-second time step of a run
MaxTime == 2
\* last minute of a run of the email OTP service
MaxClock == 11

----------------------------------------------------------------------------
(* Program constants *)

IvLen == 12
Digits == 6
Window == 1
KeyMaterial == 45
\* generateOtp: Math.floor(100000 + Math.random() * 900000)
OtpBase == 100000
OtpSpan == 900000
\* expiresAt: Date.now() + 10 * 60 * 1000, in minutes
ExpiryMinutes == 10

Users == {"alice", "bob"}
\* the users who send requests
Callers == {"alice"}
\* requests the edge runtime serves at the same time
Slots == {"r1", "r2"}
GatedFunctions == {"ai-tutor", "investment-recommendations"}

\* a base32 seed as the byte string of secret.base32
Secrets == { <<64 + n>> : n \in 1..NumSecrets }
IVs == { [i \in 1..IvLen |-> b] : b \in 0..MaxIvByte }

----------------------------------------------------------------------------
(* Symmetric secret cipher: AES-GCM, nonce prepended, base64 transport *)

\* the value of a call that threw
Failure == <<-1>>
Pad == 64

RECURSIVE SumBytes(_)
SumBytes(s) == IF s = <<>> THEN 0 ELSE s[1] + SumBytes(Tail(s))

\* btoa(String.fromCharCode(...combined)): bytes to base64 sextets
RECURSIVE Btoa(_)
Btoa(b) ==
  IF Len(b) = 0 THEN <<>>
  ELSE IF Len(b) = 1 THEN <<b[1] \div 4, (b[1] % 4) * 16, Pad, Pad>>
  ELSE IF Len(b) = 2
    THEN <<b[1] \div 4, (b[1] % 4) * 16 + (b[2] \div 16), (b[2] % 16) * 4, Pad>>
  ELSE <<b[1] \div 4, (b[1] % 4) * 16 + (b[2] \div 16),
         (b[2] % 16) * 4 + (b[3] \div 64), b[3] % 64>>
       \o Btoa(SubSeq(b, 4, Len(b)))

\* atob(ciphertext): base64 sextets to bytes, Failure on a malformed string
RECURSIVE Atob(_)
Atob(c) ==
  IF Len(c) = 0 THEN <<>>
  ELSE IF Len(c) < 4 \/ c[1] = Pad \/ c[2] = Pad THEN Failure
  ELSE IF c[3] = Pad
    THEN IF Len(c) = 4 /\ c[4] = Pad
         THEN <<c[1] * 4 + (c[2] \div 16)>> ELSE Failure
  ELSE IF c[4] = Pad
    THEN IF Len(c) = 4
         THEN <<c[1] * 4 + (c[2] \div 16), (c[2] % 16) * 16 + (c[3] \div 4)>>
         ELSE Failure
  ELSE LET rest == Atob(SubSeq(c, 5, Len(c)))
       IN IF rest = Failure THEN Failure
          ELSE <<c[1] * 4 + (c[2] \div 16), (c[2] % 16) * 16 + (c[3] \div 4),
                 (c[3] % 4) * 64 + c[4]>> \o rest

getEncryptionKey == KeyMaterial

\* crypto.subtle.encrypt({name: 'AES-GCM', iv}, key, data): ciphertext bytes
\* followed by the authentication tag
GcmCipherBytes(key, iv, data) ==
  [i \in 1..Len(data) |-> (data[i] + key + iv[1] + i) % 256]

GcmTag(key, iv, ct) == (key * 3 + SumBytes(iv) + SumBytes(ct) + 1) % 256

SubtleEncrypt(key, iv, data) ==
  LET ct == GcmCipherBytes(key, iv, data) IN ct \o <<GcmTag(key, iv, ct)>>

\* a decrypt that does not verify the authentication tag
SubtleDecryptUnchecked(key, iv, encrypted) ==
  IF Len(encrypted) < 1 \/ Len(iv) # IvLen THEN Failure
  ELSE LET ct == SubSeq(encrypted, 1, Len(encrypted) - 1)
       IN [i \in 1..Len(ct) |-> (ct[i] + 512 - key - iv[1] - i) % 256]

\* crypto.subtle.decrypt: Failure (OperationError) when the tag does not verify
SubtleDecrypt(key, iv, encrypted) ==
  IF Len(encrypted) < 1 \/ Len(iv) # IvLen THEN Failure
  ELSE LET ct == SubSeq(encrypted, 1, Len(encrypted) - 1)
           tag == encrypted[Len(encrypted)]
       IN IF tag # GcmTag(key, iv, ct) THEN Failure
          ELSE [i \in 1..Len(ct) |-> (ct[i] + 512 - key - iv[1] - i) % 256]

encryptSecret(plaintext, iv) ==
  LET combined == iv \o SubtleEncrypt(getEncryptionKey, iv, plaintext)
  IN Btoa(combined)

decryptSecret(ciphertext) ==
  LET combined == Atob(ciphertext)
  IN IF combined = Failure THEN Failure
     ELSE LET iv == SubSeq(combined, 1, IF Len(combined) < IvLen THEN Len(combined) ELSE IvLen)
              encrypted == SubSeq(combined, IvLen + 1, Len(combined))
          IN SubtleDecrypt(getEncryptionKey, iv, encrypted)

----------------------------------------------------------------------------
(* TOTP engine (OTPAuth.TOTP, SHA1, 6 digits, period 30) *)

\* a token is a string: its length and its numeric value; NoToken is undefined
NoToken == [len |-> -1, val |-> 0]
ShortToken == [len |-> Digits - 1, val |-> 0]
CodeToken(v) == [len |-> Digits, val |-> v]
Tokens == {NoToken, ShortToken} \cup { CodeToken(v) : v \in 0..(CodeSpace - 1) }

\* totp.generate at time step counter: HMAC(secret, counter) truncated to digits
TotpGenerate(secret, counter) ==
  CodeToken((secret[1] * 7 + counter * 3) % CodeSpace)

\* totp.validate comparing with the code of the current step only
TotpValidateExact(secret, token, timeStep, window) ==
  IF token = NoToken THEN "throw"
  ELSE IF token.len # Digits THEN "null"
  ELSE IF TotpGenerate(secret, timeStep) = token THEN "delta"
  ELSE "null"

\* totp.validate({token, window}): "throw" for an undefined token, "null" for
\* no match, "delta" when the token is the code of a step within the window
TotpValidate(secret, token, timeStep, window) ==
  IF token = NoToken THEN "throw"
  ELSE IF token.len # Digits THEN "null"
  ELSE IF \E d \in (0 - window)..window : TotpGenerate(secret, timeStep + d) = token
    THEN "delta"
  ELSE "null"

----------------------------------------------------------------------------
(* State *)

VARIABLES
  mfa_secrets,     \* table public.mfa_secrets: user_id -> [secret, enabled]
  now,             \* current 30-second time step (Date.now() / period)
  reqs,            \* requests in flight or answered and not yet delivered
  verifyOk,        \* history: some verify of the user answered valid:true
  verifiedSecret   \* history: the seed now stored for the user was matched by a verify

mfaVars == <<mfa_secrets, now, reqs, verifyOk, verifiedSecret>>

\* Auth page (src/pages/Auth.tsx): React state, the handler in flight, the client
VARIABLES
  email, password, otp, signupOtp,   \* useState of the inputs
  loginStep, signupStep, signupData, loading,
  tab,             \* the selected tab of <Tabs>
  page,            \* the route shown: "auth" until navigate("/dashboard")
  session,         \* the client holds an identity-provider session
  pc,              \* the await the running handler stands at, "idle" when none runs
  cap,             \* state captured by the closure of the running handler
  precheckOk,      \* history: the password pre-check of this login attempt succeeded
  otpIssued,       \* history: sendOtp(email, 'login') of this attempt succeeded
  otpVerified,     \* history: verifyOtp of the running login handler succeeded
  signupVerified   \* history: verifyOtp of the running signup handler succeeded

authVars == <<email, password, otp, signupOtp, loginStep, signupStep, signupData,
              loading, tab, page, session, pc, cap, precheckOk, otpIssued,
              otpVerified, signupVerified>>

\* Email OTP service (send-otp, verify-otp) and its table
VARIABLES
  email_otp,       \* table public.email_otp: bag of rows (rows differ in their id only)
  clock,           \* Date.now() in minutes
  otpReqs,         \* send-otp requests in flight
  otpAnswer,       \* the answer the last step gave, NoOtpAnswer when it gave none
  overlap          \* history: two send-otp requests for one (email, type) ran at the same time

otpVars == <<email_otp, clock, otpReqs, otpAnswer, overlap>>

\* Password reset on the Auth page and on the Settings page
VARIABLES
  resetEmail, resetSent,   \* useState of the Forgot Password tab
  formEmail,       \* form.getValues('email') of the Settings page
  settingsPc,      \* the await handlePasswordReset of the Settings page stands at
  toast,           \* the toast shown last
  consoleError     \* the last line console.error wrote, "" when none

uiVars == <<resetEmail, resetSent, formEmail, settingsPc, toast, consoleError>>

NoResp == [status |-> 0, body |-> "", secret |-> <<>>]
Response(status, body) == [status |-> status, body |-> body, secret |-> <<>>]

\* a request of `user` for `action`, standing at `at`
Request(user, action, at, token, secret, resp) ==
  [user |-> user, action |-> action, pc |-> at, token |-> token, secret |-> secret,
   sawEnabled |-> FALSE, validated |-> "none", privileged |-> FALSE, resp |-> resp]

Answered(user, action, resp) == Request(user, action, "done", NoToken, <<>>, resp)

CanAccept == Cardinality(reqs) < Cardinality(Slots)

\* .from('mfa_secrets').select(...).eq('user_id', u).single(): the row or nothing
Select(table, u) == IF u \in DOMAIN table THEN {table[u]} ELSE {}

\* an insert that leaves an existing row of the user as it is
InsertIfAbsent(table, u, row) ==
  [x \in (DOMAIN table) \cup {u} |-> IF x \in DOMAIN table THEN table[x] ELSE row]

\* .upsert({user_id, secret, enabled}) on the primary key user_id
Upsert(table, u, row) ==
  [x \in (DOMAIN table) \cup {u} |-> IF x = u THEN row ELSE table[x]]

\* .update({enabled: true}) without the .eq('user_id', u) filter
UpdateEnabledAll(table, u) ==
  [x \in DOMAIN table |-> [table[x] EXCEPT !.enabled = TRUE]]

\* .update({enabled: true}).eq('user_id', u)
UpdateEnabled(table, u) ==
  [x \in DOMAIN table |-> IF x = u THEN [table[x] EXCEPT !.enabled = TRUE] ELSE table[x]]

GenericError == Response(500, "error:An error occurred. Please try again.")

MfaInit ==
  /\ mfa_secrets = [u \in {} |-> [secret |-> <<>>, enabled |-> FALSE]]
  /\ now = 1
  /\ reqs = {}
  /\ verifyOk = [u \in Users |-> FALSE]
  /\ verifiedSecret = [u \in Users |-> FALSE]

----------------------------------------------------------------------------
(* mfa-setup: serve handler *)

\* no caller identity: 401
MfaUnauthorized(action) ==
  /\ CanAccept
  /\ reqs' = reqs \cup {Answered("anon", action, Response(401, "error:Unauthorized"))}
  /\ UNCHANGED <<mfa_secrets, now, verifyOk, verifiedSecret>>
  /\ UNCHANGED <<authVars, otpVars, uiVars>>

\* an action other than setup, verify, check, validate: 400
MfaInvalidAction(u) ==
  /\ CanAccept
  /\ reqs' = reqs \cup {Answered(u, "other", Response(400, "error:Invalid action"))}
  /\ UNCHANGED <<mfa_secrets, now, verifyOk, verifiedSecret>>
  /\ UNCHANGED <<authVars, otpVars, uiVars>>

\* Setup without the `if (insertError)` answer
SetupIgnoringError(u) ==
  /\ CanAccept
  /\ \E secret \in Secrets, iv \in IVs, upsertOk \in BOOLEAN :
       /\ mfa_secrets' = IF upsertOk
                         THEN Upsert(mfa_secrets, u, [secret |-> encryptSecret(secret, iv),
                                                      enabled |-> FALSE])
                         ELSE mfa_secrets
       /\ verifiedSecret' = [verifiedSecret EXCEPT ![u] = @ /\ ~ upsertOk]
       /\ reqs' = reqs \cup {Answered(u, "setup",
                     [status |-> 200, body |-> "secret,qrCodeUrl", secret |-> secret])}
  /\ UNCHANGED <<now, verifyOk>>
  /\ UNCHANGED <<authVars, otpVars, uiVars>>

\* Setup storing secret.base32 itself, without encryptSecret
SetupStoresPlaintext(u) ==
  /\ CanAccept
  /\ \E secret \in Secrets, upsertOk \in BOOLEAN :
       IF upsertOk
       THEN /\ mfa_secrets' = Upsert(mfa_secrets, u, [secret |-> secret, enabled |-> FALSE])
            /\ verifiedSecret' = [verifiedSecret EXCEPT ![u] = FALSE]
            /\ reqs' = reqs \cup {Answered(u, "setup",
                          [status |-> 200, body |-> "secret,qrCodeUrl", secret |-> secret])}
       ELSE /\ reqs' = reqs \cup {Answered(u, "setup",
                          Response(500, "error:Failed to setup MFA"))}
            /\ UNCHANGED <<mfa_secrets, verifiedSecret>>
  /\ UNCHANGED <<now, verifyOk>>
  /\ UNCHANGED <<authVars, otpVars, uiVars>>

\* action 'setup': new seed, encrypted, upserted with enabled: false
Setup(u) ==
  /\ CanAccept
  /\ \E secret \in Secrets, iv \in IVs, upsertOk \in BOOLEAN :
       LET encryptedSecret == encryptSecret(secret, iv)
       IN IF upsertOk
          THEN /\ mfa_secrets' = Upsert(mfa_secrets, u,
                                         [secret |-> encryptedSecret, enabled |-> FALSE])
               /\ verifiedSecret' = [verifiedSecret EXCEPT ![u] = FALSE]
               /\ reqs' = reqs \cup {Answered(u, "setup",
                             [status |-> 200, body |-> "secret,qrCodeUrl", secret |-> secret])}
          ELSE /\ reqs' = reqs \cup {Answered(u, "setup",
                             Response(500, "error:Failed to setup MFA"))}
               /\ UNCHANGED <<mfa_secrets, verifiedSecret>>
  /\ UNCHANGED <<now, verifyOk>>
  /\ UNCHANGED <<authVars, otpVars, uiVars>>

\* VerifyRead without the `if (!mfaData)` answer: reading mfaData.secret throws
VerifyReadUnchecked(u, token) ==
  /\ CanAccept
  /\ LET mfaData == Select(mfa_secrets, u)
     IN IF mfaData = {}
        THEN reqs' = reqs \cup {Answered(u, "verify", GenericError)}
        ELSE \E row \in mfaData :
               reqs' = reqs \cup {Request(u, "verify", "update", token, row.secret, NoResp)}
  /\ UNCHANGED <<mfa_secrets, now, verifyOk, verifiedSecret>>
  /\ UNCHANGED <<authVars, otpVars, uiVars>>

\* action 'verify', first half: select the stored secret
VerifyRead(u, token) ==
  /\ CanAccept
  /\ LET mfaData == Select(mfa_secrets, u)
     IN IF mfaData = {}
        THEN reqs' = reqs \cup {Answered(u, "verify", Response(400, "error:MFA not setup"))}
        ELSE \E row \in mfaData :
               reqs' = reqs \cup {Request(u, "verify", "update", token, row.secret, NoResp)}
  /\ UNCHANGED <<mfa_secrets, now, verifyOk, verifiedSecret>>
  /\ UNCHANGED <<authVars, otpVars, uiVars>>

\* the response of verify once the token was validated against the decrypted secret
VerifyResponse(isValid) ==
  Response(200, IF isValid THEN "valid:true" ELSE "valid:false")

\* VerifyUpdate without the `if (isValid)` around the update
VerifyUpdateAlways(r) ==
  /\ r \in reqs /\ r.action = "verify" /\ r.pc = "update"
  /\ LET decryptedSecret == decryptSecret(r.secret)
         delta == IF decryptedSecret = Failure THEN "throw"
                  ELSE TotpValidate(decryptedSecret, r.token, now, Window)
         isValid == delta = "delta"
         u == r.user
     IN IF delta = "throw"
        THEN /\ reqs' = (reqs \ {r}) \cup {Answered(u, "verify", GenericError)}
             /\ UNCHANGED <<mfa_secrets, verifyOk, verifiedSecret>>
        ELSE /\ reqs' = (reqs \ {r}) \cup {Answered(u, "verify", VerifyResponse(isValid))}
             /\ verifyOk' = [verifyOk EXCEPT ![u] = @ \/ isValid]
             /\ \E updateOk \in BOOLEAN :
                  mfa_secrets' = IF updateOk THEN UpdateEnabled(mfa_secrets, u)
                                 ELSE mfa_secrets
             /\ verifiedSecret' =
                  [verifiedSecret EXCEPT ![u] =
                     @ \/ (/\ isValid
                           /\ \E row \in Select(mfa_secrets, u) :
                                 decryptSecret(row.secret) = decryptedSecret)]
  /\ UNCHANGED now
  /\ UNCHANGED <<authVars, otpVars, uiVars>>

\* action 'verify', second half: decrypt, validate, enable on a match, respond
VerifyUpdate(r) ==
  /\ r \in reqs /\ r.action = "verify" /\ r.pc = "update"
  /\ LET decryptedSecret == decryptSecret(r.secret)
         delta == IF decryptedSecret = Failure THEN "throw"
                  ELSE TotpValidate(decryptedSecret, r.token, now, Window)
         isValid == delta = "delta"
         u == r.user
     IN IF delta = "throw"
        THEN /\ reqs' = (reqs \ {r}) \cup {Answered(u, "verify", GenericError)}
             /\ UNCHANGED <<mfa_secrets, verifyOk, verifiedSecret>>
        ELSE /\ reqs' = (reqs \ {r}) \cup {Answered(u, "verify", VerifyResponse(isValid))}
             /\ verifyOk' = [verifyOk EXCEPT ![u] = @ \/ isValid]
             /\ IF isValid
                THEN \E updateOk \in BOOLEAN :
                       mfa_secrets' = IF updateOk THEN UpdateEnabled(mfa_secrets, u)
                                      ELSE mfa_secrets
                ELSE UNCHANGED mfa_secrets
             /\ verifiedSecret' =
                  [verifiedSecret EXCEPT ![u] =
                     @ \/ (/\ isValid
                           /\ \E row \in Select(mfa_secrets, u) :
                                 decryptSecret(row.secret) = decryptedSecret)]
  /\ UNCHANGED now
  /\ UNCHANGED <<authVars, otpVars, uiVars>>

\* action 'check'
Check(u) ==
  /\ CanAccept
  /\ LET mfaData == Select(mfa_secrets, u)
         enabled == \E row \in mfaData : row.enabled
     IN reqs' = reqs \cup {Answered(u, "check",
                   Response(200, IF enabled THEN "enabled:true" ELSE "enabled:false"))}
  /\ UNCHANGED <<mfa_secrets, now, verifyOk, verifiedSecret>>
  /\ UNCHANGED <<authVars, otpVars, uiVars>>

\* ValidateResponse testing `!mfaData` in place of `!mfaData?.enabled`
ValidateResponseRowOnly(mfaData, token, timeStep) ==
  IF mfaData = {}
  THEN Response(200, "valid:true")
  ELSE LET row == CHOOSE x \in mfaData : TRUE
           decryptedSecret == decryptSecret(row.secret)
           delta == IF decryptedSecret = Failure THEN "throw"
                    ELSE TotpValidate(decryptedSecret, token, timeStep, Window)
       IN IF delta = "throw" THEN GenericError
          ELSE Response(200, IF delta = "delta" THEN "valid:true" ELSE "valid:false")

\* action 'validate': the response computed from the selected row and the token
ValidateResponse(mfaData, token, timeStep) ==
  IF ~ (\E row \in mfaData : row.enabled)
  THEN Response(200, "valid:true")
  ELSE LET row == CHOOSE x \in mfaData : TRUE
           decryptedSecret == decryptSecret(row.secret)
           delta == IF decryptedSecret = Failure THEN "throw"
                    ELSE TotpValidate(decryptedSecret, token, timeStep, Window)
       IN IF delta = "throw" THEN GenericError
          ELSE Response(200, IF delta = "delta" THEN "valid:true" ELSE "valid:false")

\* Validate with the enabling update of verify copied into it
ValidateEnabling(u, token) ==
  /\ CanAccept
  /\ LET resp == ValidateResponse(Select(mfa_secrets, u), token, now)
     IN /\ reqs' = reqs \cup {[Answered(u, "validate", resp) EXCEPT !.token = token]}
        /\ mfa_secrets' = IF resp.body = "valid:true" THEN UpdateEnabled(mfa_secrets, u)
                          ELSE mfa_secrets
  /\ UNCHANGED <<now, verifyOk, verifiedSecret>>
  /\ UNCHANGED <<authVars, otpVars, uiVars>>

Validate(u, token) ==
  /\ CanAccept
  /\ reqs' = reqs \cup
       {[Answered(u, "validate", ValidateResponse(Select(mfa_secrets, u), token, now))
           EXCEPT !.token = token]}
  /\ UNCHANGED <<mfa_secrets, now, verifyOk, verifiedSecret>>
  /\ UNCHANGED <<authVars, otpVars, uiVars>>

\* the response leaves the function
Deliver(r) ==
  /\ r \in reqs /\ r.pc = "done"
  /\ reqs' = reqs \ {r}
  /\ UNCHANGED <<mfa_secrets, now, verifyOk, verifiedSecret>>
  /\ UNCHANGED <<authVars, otpVars, uiVars>>

\* 30 seconds pass
Tick ==
  /\ now < MaxTime
  /\ now' = now + 1
  /\ UNCHANGED <<mfa_secrets, reqs, verifyOk, verifiedSecret>>
  /\ UNCHANGED <<authVars, otpVars, uiVars>>

----------------------------------------------------------------------------
(* MFA gate of ai-tutor and investment-recommendations *)

LlmStatuses == {200, 402, 429, 500}

\* no caller identity: 401, before the gate
GateUnauthorized(fn) ==
  /\ CanAccept
  /\ fn \in GatedFunctions
  /\ reqs' = reqs \cup {Answered("anon", "gated", Response(401, "error:Unauthorized"))}
  /\ UNCHANGED <<mfa_secrets, now, verifyOk, verifiedSecret>>
  /\ UNCHANGED <<authVars, otpVars, uiVars>>

\* select enabled; when enabled require the X-MFA-Token header
GateLookup(fn, u, mfaToken) ==
  /\ CanAccept
  /\ fn \in GatedFunctions
  /\ LET mfaData == Select(mfa_secrets, u)
         enabled == \E row \in mfaData : row.enabled
     IN IF enabled
        THEN IF mfaToken = NoToken
             THEN reqs' = reqs \cup
                    {[Answered(u, "gated",
                        Response(403, "error:MFA token required for this operation"))
                      EXCEPT !.sawEnabled = TRUE]}
             ELSE reqs' = reqs \cup
                    {[Request(u, "gated", "invoke", mfaToken, <<>>, NoResp)
                      EXCEPT !.sawEnabled = TRUE]}
        ELSE reqs' = reqs \cup {Request(u, "gated", "llm", mfaToken, <<>>, NoResp)}
  /\ UNCHANGED <<mfa_secrets, now, verifyOk, verifiedSecret>>
  /\ UNCHANGED <<authVars, otpVars, uiVars>>

\* ValidateRejected testing validateResponse.error only
ValidateRejectedErrorOnly(invokeOk, validateResponse) ==
  \/ ~ invokeOk
  \/ validateResponse.status # 200

\* validateResponse.error || !validateResponse.data?.valid
ValidateRejected(invokeOk, validateResponse) ==
  \/ ~ invokeOk
  \/ validateResponse.status # 200
  \/ validateResponse.body # "valid:true"

\* what functions.invoke hands back: the body of a 2xx answer, else an error
InvokeResult(invokeOk, validateResponse) ==
  IF invokeOk /\ validateResponse.status = 200 THEN validateResponse.body ELSE "error"

\* functions.invoke('mfa-setup', {action: 'validate', token}) and its check
GateValidate(r) ==
  /\ r \in reqs /\ r.action = "gated" /\ r.pc = "invoke"
  /\ \E invokeOk \in BOOLEAN :
       LET validateResponse == ValidateResponse(Select(mfa_secrets, r.user), r.token, now)
           result == InvokeResult(invokeOk, validateResponse)
       IN IF ValidateRejected(invokeOk, validateResponse)
          THEN reqs' = (reqs \ {r}) \cup
                 {[r EXCEPT !.pc = "done", !.validated = result,
                            !.resp = Response(403, "error:Invalid MFA token")]}
          ELSE reqs' = (reqs \ {r}) \cup {[r EXCEPT !.pc = "llm", !.validated = result]}
  /\ UNCHANGED <<mfa_secrets, now, verifyOk, verifiedSecret>>
  /\ UNCHANGED <<authVars, otpVars, uiVars>>

\* the privileged action: the context read, the LLM completion call, the answer
GatePrivileged(r) ==
  /\ r \in reqs /\ r.action = "gated" /\ r.pc = "llm"
  /\ \E llmStatus \in LlmStatuses :
       reqs' = (reqs \ {r}) \cup
         {[r EXCEPT !.pc = "done", !.privileged = TRUE,
                    !.resp = Response(llmStatus,
                                IF llmStatus = 200 THEN "completion" ELSE "error")]}
  /\ UNCHANGED <<mfa_secrets, now, verifyOk, verifiedSecret>>
  /\ UNCHANGED <<authVars, otpVars, uiVars>>

----------------------------------------------------------------------------
(* Specification of the MFA functions *)

MfaNext ==
  \/ \E a \in {"setup", "verify", "check", "validate"} : MfaUnauthorized(a)
  \/ \E u \in Callers : MfaInvalidAction(u)
  \/ \E u \in Callers : Setup(u)
  \/ \E u \in Callers, token \in Tokens : VerifyRead(u, token)
  \/ \E r \in reqs : VerifyUpdate(r)
  \/ \E u \in Callers : Check(u)
  \/ \E u \in Callers, token \in Tokens : Validate(u, token)
  \/ \E fn \in GatedFunctions : GateUnauthorized(fn)
  \/ \E fn \in GatedFunctions, u \in Callers, token \in Tokens : GateLookup(fn, u, token)
  \/ \E r \in reqs : GateValidate(r)
  \/ \E r \in reqs : GatePrivileged(r)
  \/ \E r \in reqs : Deliver(r)
  \/ Tick


----------------------------------------------------------------------------
(* Auth page: login and signup flow *)

Emails == {"", "ann@x.io", "bob@x.io"}
Passwords == {"", "weak", "Str0ng!pw"}
OtpInputs == {"", "123456"}

NoCap == [email |-> "", password |-> "", otp |-> "", signupData |-> {}]

\* loginSchema: a valid email address and a non-empty password
loginSchema(e, p) == e # "" /\ p # ""

\* signupSchema, email and password part; the profile fields are an input
signupSchema(e, p, profileValid) == e # "" /\ p = "Str0ng!pw" /\ profileValid

AuthInit ==
  /\ email = "" /\ password = "" /\ otp = "" /\ signupOtp = ""
  /\ loginStep = "credentials" /\ signupStep = "email-verify"
  /\ signupData = {} /\ loading = FALSE
  /\ tab = "login" /\ page = "auth" /\ session = FALSE
  /\ pc = "idle" /\ cap = NoCap
  /\ precheckOk = FALSE /\ otpIssued = FALSE /\ otpVerified = FALSE
  /\ signupVerified = FALSE

\* the form with the shared email input is shown
EmailInputShown ==
  \/ tab = "login" /\ loginStep = "credentials"
  \/ tab = "signup" /\ signupStep = "email-verify"

PasswordInputShown ==
  \/ tab = "login" /\ loginStep = "credentials"
  \/ tab = "signup" /\ signupStep = "details"

TypeEmail(e) ==
  /\ page = "auth" /\ EmailInputShown
  /\ email' = e
  /\ UNCHANGED <<password, otp, signupOtp, loginStep, signupStep, signupData, loading,
                 tab, page, session, pc, cap, precheckOk, otpIssued, otpVerified,
                 signupVerified>>
  /\ UNCHANGED <<mfaVars, otpVars, uiVars>>

TypePassword(p) ==
  /\ page = "auth" /\ PasswordInputShown
  /\ password' = p
  /\ UNCHANGED <<email, otp, signupOtp, loginStep, signupStep, signupData, loading,
                 tab, page, session, pc, cap, precheckOk, otpIssued, otpVerified,
                 signupVerified>>
  /\ UNCHANGED <<mfaVars, otpVars, uiVars>>

TypeOtp(o) ==
  /\ page = "auth" /\ tab = "login" /\ loginStep = "otp"
  /\ otp' = o
  /\ UNCHANGED <<email, password, signupOtp, loginStep, signupStep, signupData, loading,
                 tab, page, session, pc, cap, precheckOk, otpIssued, otpVerified,
                 signupVerified>>
  /\ UNCHANGED <<mfaVars, otpVars, uiVars>>

TypeSignupOtp(o) ==
  /\ page = "auth" /\ tab = "signup" /\ signupStep = "complete"
  /\ signupOtp' = o
  /\ UNCHANGED <<email, password, otp, loginStep, signupStep, signupData, loading,
                 tab, page, session, pc, cap, precheckOk, otpIssued, otpVerified,
                 signupVerified>>
  /\ UNCHANGED <<mfaVars, otpVars, uiVars>>

\* TabsTrigger onClick
ClickLoginTab ==
  /\ page = "auth"
  /\ tab' = "login" /\ loginStep' = "credentials" /\ otp' = ""
  /\ UNCHANGED <<email, password, signupOtp, signupStep, signupData, loading, page,
                 session, pc, cap, precheckOk, otpIssued, otpVerified, signupVerified>>
  /\ UNCHANGED <<mfaVars, otpVars, uiVars>>

\* the Sign Up trigger without its onClick
ClickSignupTabNoReset ==
  /\ page = "auth"
  /\ tab' = "signup"
  /\ UNCHANGED <<email, password, otp, signupOtp, loginStep, signupStep, signupData,
                 loading, page, session, pc, cap, precheckOk, otpIssued, otpVerified,
                 signupVerified>>
  /\ UNCHANGED <<mfaVars, otpVars, uiVars>>

ClickSignupTab ==
  /\ page = "auth"
  /\ tab' = "signup" /\ signupStep' = "email-verify" /\ signupOtp' = ""
  /\ UNCHANGED <<email, password, otp, loginStep, signupData, loading, page,
                 session, pc, cap, precheckOk, otpIssued, otpVerified, signupVerified>>
  /\ UNCHANGED <<mfaVars, otpVars, uiVars>>

ClickForgotTab ==
  /\ page = "auth"
  /\ tab' = "forgot"
  /\ UNCHANGED <<email, password, otp, signupOtp, loginStep, signupStep, signupData,
                 loading, page, session, pc, cap, precheckOk, otpIssued, otpVerified,
                 signupVerified>>
  /\ UNCHANGED <<mfaVars, otpVars, uiVars>>

\* "Back to Login" on the OTP view
BackToLogin ==
  /\ page = "auth" /\ tab = "login" /\ loginStep = "otp"
  /\ loginStep' = "credentials" /\ otp' = ""
  /\ UNCHANGED <<email, password, signupOtp, signupStep, signupData, loading, tab, page,
                 session, pc, cap, precheckOk, otpIssued, otpVerified, signupVerified>>
  /\ UNCHANGED <<mfaVars, otpVars, uiVars>>

\* "Back" on the details form and on the code view of the signup
SignupBack ==
  /\ page = "auth" /\ tab = "signup" /\ signupStep \in {"details", "complete"}
  /\ signupStep' = IF signupStep = "details" THEN "email-verify" ELSE "details"
  /\ UNCHANGED <<email, password, otp, signupOtp, loginStep, signupData, loading, tab,
                 page, session, pc, cap, precheckOk, otpIssued, otpVerified,
                 signupVerified>>
  /\ UNCHANGED <<mfaVars, otpVars, uiVars>>

\* handleLogin up to the call of signInWithPassword
handleLogin ==
  /\ page = "auth" /\ tab = "login" /\ loginStep = "credentials" /\ ~ loading
  /\ IF ~ loginSchema(email, password)
     THEN UNCHANGED <<loading, pc, cap, precheckOk, otpIssued, otpVerified>>
     ELSE /\ loading' = TRUE
          /\ pc' = "login_signin"
          /\ cap' = [NoCap EXCEPT !.email = email, !.password = password]
          /\ precheckOk' = FALSE /\ otpIssued' = FALSE /\ otpVerified' = FALSE
  /\ UNCHANGED <<email, password, otp, signupOtp, loginStep, signupStep, signupData,
                 tab, page, session, signupVerified>>
  /\ UNCHANGED <<mfaVars, otpVars, uiVars>>

\* handleLogin: signInWithPassword answered; on success signOut is called
LoginPrecheckDone ==
  /\ pc = "login_signin"
  /\ \E error \in BOOLEAN :
       IF error
       THEN /\ loading' = FALSE /\ pc' = "idle" /\ cap' = NoCap
            /\ UNCHANGED <<session, precheckOk>>
       ELSE /\ session' = TRUE /\ precheckOk' = TRUE
            /\ pc' = "login_signout"
            /\ UNCHANGED <<loading, cap>>
  /\ UNCHANGED <<email, password, otp, signupOtp, loginStep, signupStep, signupData,
                 tab, page, otpIssued, otpVerified, signupVerified>>
  /\ UNCHANGED <<mfaVars, otpVars, uiVars>>

\* handleLogin: signOut answered (its result is not read); sendOtp is called
LoginSignOutDone ==
  /\ pc = "login_signout"
  /\ \E signedOut \in BOOLEAN : session' = IF signedOut THEN FALSE ELSE session
  /\ pc' = "login_sendotp"
  /\ UNCHANGED <<email, password, otp, signupOtp, loginStep, signupStep, signupData,
                 loading, tab, page, cap, precheckOk, otpIssued, otpVerified,
                 signupVerified>>
  /\ UNCHANGED <<mfaVars, otpVars, uiVars>>

\* LoginOtpSent without the `if (!result.success)` return
LoginOtpSentUnchecked ==
  /\ pc = "login_sendotp"
  /\ \E success \in BOOLEAN :
       /\ loginStep' = "otp"
       /\ otpIssued' = success
  /\ loading' = FALSE /\ pc' = "idle" /\ cap' = NoCap
  /\ UNCHANGED <<email, password, otp, signupOtp, signupStep, signupData, tab, page,
                 session, precheckOk, otpVerified, signupVerified>>
  /\ UNCHANGED <<mfaVars, otpVars, uiVars>>

\* handleLogin: sendOtp(email, 'login') answered
LoginOtpSent ==
  /\ pc = "login_sendotp"
  /\ \E success \in BOOLEAN :
       /\ loginStep' = IF success THEN "otp" ELSE loginStep
       /\ otpIssued' = success
  /\ loading' = FALSE /\ pc' = "idle" /\ cap' = NoCap
  /\ UNCHANGED <<email, password, otp, signupOtp, signupStep, signupData, tab, page,
                 session, precheckOk, otpVerified, signupVerified>>
  /\ UNCHANGED <<mfaVars, otpVars, uiVars>>

\* handleLoginOtpVerify up to the call of verifyOtp(email, otp, 'login')
handleLoginOtpVerify ==
  /\ page = "auth" /\ tab = "login" /\ loginStep = "otp" /\ ~ loading
  /\ otp # ""
  /\ loading' = TRUE /\ pc' = "otp_verify"
  /\ cap' = [NoCap EXCEPT !.email = email, !.password = password, !.otp = otp]
  /\ otpVerified' = FALSE
  /\ UNCHANGED <<email, password, otp, signupOtp, loginStep, signupStep, signupData,
                 tab, page, session, precheckOk, otpIssued, signupVerified>>
  /\ UNCHANGED <<mfaVars, otpVars, uiVars>>

\* handleLoginOtpVerify: verifyOtp answered; on success the real sign-in is called
LoginOtpVerifyDone ==
  /\ pc = "otp_verify"
  /\ \E success \in BOOLEAN :
       IF success
       THEN /\ otpVerified' = TRUE /\ pc' = "otp_signin"
            /\ UNCHANGED <<loading, cap>>
       ELSE /\ loading' = FALSE /\ pc' = "idle" /\ cap' = NoCap
            /\ UNCHANGED otpVerified
  /\ UNCHANGED <<email, password, otp, signupOtp, loginStep, signupStep, signupData,
                 tab, page, session, precheckOk, otpIssued, signupVerified>>
  /\ UNCHANGED <<mfaVars, otpVars, uiVars>>

\* handleLoginOtpVerify: the final signInWithPassword answered
LoginFinalSignInDone ==
  /\ pc = "otp_signin"
  /\ \E error \in BOOLEAN :
       IF error
       THEN /\ loginStep' = "credentials" /\ UNCHANGED <<session, page>>
       ELSE /\ session' = TRUE /\ page' = "dashboard" /\ UNCHANGED loginStep
  /\ loading' = FALSE /\ pc' = "idle" /\ cap' = NoCap
  /\ UNCHANGED <<email, password, otp, signupOtp, signupStep, signupData, tab,
                 precheckOk, otpIssued, otpVerified, signupVerified>>
  /\ UNCHANGED <<mfaVars, otpVars, uiVars>>

\* resendOtp(type) up to the call of sendOtp
resendOtp(type) ==
  /\ page = "auth" /\ ~ loading
  /\ \/ type = "login" /\ tab = "login" /\ loginStep = "otp"
     \/ type = "signup" /\ tab = "signup" /\ signupStep = "complete"
  /\ loading' = TRUE /\ pc' = "resend"
  /\ cap' = [NoCap EXCEPT !.email = email]
  /\ UNCHANGED <<email, password, otp, signupOtp, loginStep, signupStep, signupData,
                 tab, page, session, precheckOk, otpIssued, otpVerified, signupVerified>>
  /\ UNCHANGED <<mfaVars, otpVars, uiVars>>

\* resendOtp: sendOtp answered, a toast either way
ResendDone ==
  /\ pc = "resend"
  /\ loading' = FALSE /\ pc' = "idle" /\ cap' = NoCap
  /\ UNCHANGED <<email, password, otp, signupOtp, loginStep, signupStep, signupData,
                 tab, page, session, precheckOk, otpIssued, otpVerified, signupVerified>>
  /\ UNCHANGED <<mfaVars, otpVars, uiVars>>

\* handleSendSignupOtp up to the call of sendOtp(email, 'signup')
handleSendSignupOtp ==
  /\ page = "auth" /\ tab = "signup" /\ signupStep = "email-verify" /\ ~ loading
  /\ IF email = ""
     THEN UNCHANGED <<loading, pc, cap>>
     ELSE /\ loading' = TRUE /\ pc' = "signup_send"
          /\ cap' = [NoCap EXCEPT !.email = email]
  /\ UNCHANGED <<email, password, otp, signupOtp, loginStep, signupStep, signupData,
                 tab, page, session, precheckOk, otpIssued, otpVerified, signupVerified>>
  /\ UNCHANGED <<mfaVars, otpVars, uiVars>>

\* handleSendSignupOtp: sendOtp answered
SignupOtpSent ==
  /\ pc = "signup_send"
  /\ \E success \in BOOLEAN :
       signupStep' = IF success THEN "details" ELSE signupStep
  /\ loading' = FALSE /\ pc' = "idle" /\ cap' = NoCap
  /\ UNCHANGED <<email, password, otp, signupOtp, loginStep, signupData, tab, page,
                 session, precheckOk, otpIssued, otpVerified, signupVerified>>
  /\ UNCHANGED <<mfaVars, otpVars, uiVars>>

\* handleSignupDetails: validate the profile, keep it, go to the code view
handleSignupDetails ==
  /\ page = "auth" /\ tab = "signup" /\ signupStep = "details" /\ ~ loading
  /\ \E profileValid \in BOOLEAN :
       IF signupSchema(email, password, profileValid)
       THEN /\ signupData' = {[email |-> email, password |-> password]}
            /\ signupStep' = "complete"
       ELSE UNCHANGED <<signupData, signupStep>>
  /\ UNCHANGED <<email, password, otp, signupOtp, loginStep, loading, tab, page,
                 session, pc, cap, precheckOk, otpIssued, otpVerified, signupVerified>>
  /\ UNCHANGED <<mfaVars, otpVars, uiVars>>

\* handleVerifySignupOtp up to the call of verifyOtp(email, signupOtp, 'signup')
handleVerifySignupOtp ==
  /\ page = "auth" /\ tab = "signup" /\ signupStep = "complete" /\ ~ loading
  /\ signupOtp # ""
  /\ loading' = TRUE /\ pc' = "signup_verify"
  /\ cap' = [NoCap EXCEPT !.email = email, !.otp = signupOtp, !.signupData = signupData]
  /\ signupVerified' = FALSE
  /\ UNCHANGED <<email, password, otp, signupOtp, loginStep, signupStep, signupData,
                 tab, page, session, precheckOk, otpIssued, otpVerified>>
  /\ UNCHANGED <<mfaVars, otpVars, uiVars>>

\* SignupOtpVerifyDone without the `if (!result.success)` return
SignupOtpVerifyDoneUnchecked ==
  /\ pc = "signup_verify"
  /\ \E success \in BOOLEAN :
       /\ signupVerified' = success
       /\ pc' = IF cap.signupData = {} THEN "thrown" ELSE "signup_create"
       /\ UNCHANGED <<loading, cap>>
  /\ UNCHANGED <<email, password, otp, signupOtp, loginStep, signupStep, signupData,
                 tab, page, session, precheckOk, otpIssued, otpVerified>>
  /\ UNCHANGED <<mfaVars, otpVars, uiVars>>

\* handleVerifySignupOtp: verifyOtp answered; on success signUp is called with
\* signupData (a null signupData throws and leaves the handler)
SignupOtpVerifyDone ==
  /\ pc = "signup_verify"
  /\ \E success \in BOOLEAN :
       IF success
       THEN /\ signupVerified' = TRUE
            /\ pc' = IF cap.signupData = {} THEN "thrown" ELSE "signup_create"
            /\ UNCHANGED <<loading, cap>>
       ELSE /\ loading' = FALSE /\ pc' = "idle" /\ cap' = NoCap
            /\ UNCHANGED signupVerified
  /\ UNCHANGED <<email, password, otp, signupOtp, loginStep, signupStep, signupData,
                 tab, page, session, precheckOk, otpIssued, otpVerified>>
  /\ UNCHANGED <<mfaVars, otpVars, uiVars>>

\* handleVerifySignupOtp: signUp answered
SignupCreateDone ==
  /\ pc = "signup_create"
  /\ \E error \in BOOLEAN :
       IF error
       THEN UNCHANGED <<signupStep, email, password, signupOtp>>
       ELSE /\ signupStep' = "email-verify"
            /\ email' = "" /\ password' = "" /\ signupOtp' = ""
  /\ loading' = FALSE /\ pc' = "idle" /\ cap' = NoCap
  /\ UNCHANGED <<otp, loginStep, signupData, tab, page, session, precheckOk, otpIssued,
                 otpVerified, signupVerified>>
  /\ UNCHANGED <<mfaVars, otpVars, uiVars>>

AuthNext ==
  \/ \E e \in Emails : TypeEmail(e)
  \/ \E p \in Passwords : TypePassword(p)
  \/ \E o \in OtpInputs : TypeOtp(o)
  \/ \E o \in OtpInputs : TypeSignupOtp(o)
  \/ ClickLoginTab
  \/ ClickSignupTab
  \/ ClickForgotTab
  \/ BackToLogin
  \/ SignupBack
  \/ handleLogin
  \/ LoginPrecheckDone
  \/ LoginSignOutDone
  \/ LoginOtpSent
  \/ handleLoginOtpVerify
  \/ LoginOtpVerifyDone
  \/ LoginFinalSignInDone
  \/ \E type \in {"login", "signup"} : resendOtp(type)
  \/ ResendDone
  \/ handleSendSignupOtp
  \/ SignupOtpSent
  \/ handleSignupDetails
  \/ handleVerifySignupOtp
  \/ SignupOtpVerifyDone
  \/ SignupCreateDone

----------------------------------------------------------------------------
(* Password reset: Forgot Password tab of the Auth page, Settings page *)

Toast(variant, title, description) ==
  [variant |-> variant, title |-> title, description |-> description]
NoToast == Toast("", "", "")

EmailRequiredToast ==
  Toast("destructive", "Email required", "Please enter your email address")
CheckYourEmailToast ==
  Toast("default", "Check your email",
        "If an account exists with this email, you will receive a password reset link.")
EmailNotFoundToast ==
  Toast("destructive", "Email not found", "Please refresh the page and try again")
ResetRequestedToast ==
  Toast("default", "Password reset requested",
        "If an account exists with this email, you'll receive a password reset link.")
\* the toast of a reset that reports the provider's error to the user
ResetFailedToast ==
  Toast("destructive", "Password reset failed", "error.message")

ResetErrorLog == "Password reset error:"

UiInit ==
  /\ resetEmail = "" /\ resetSent = FALSE
  /\ formEmail = "" /\ settingsPc = "idle"
  /\ toast = NoToast /\ consoleError = ""

\* onChange of the reset-email input
TypeResetEmail(e) ==
  /\ page = "auth" /\ tab = "forgot" /\ ~ resetSent
  /\ resetEmail' = e
  /\ UNCHANGED <<resetSent, formEmail, settingsPc, toast, consoleError>>
  /\ UNCHANGED <<mfaVars, authVars, otpVars>>

\* button "Send Another Link"
SendAnotherLink ==
  /\ page = "auth" /\ tab = "forgot" /\ resetSent
  /\ resetSent' = FALSE /\ resetEmail' = ""
  /\ UNCHANGED <<formEmail, settingsPc, toast, consoleError>>
  /\ UNCHANGED <<mfaVars, authVars, otpVars>>

\* submit of the reset form, up to the await of resetPasswordForEmail
handleForgotPassword ==
  /\ page = "auth" /\ tab = "forgot" /\ ~ resetSent /\ ~ loading /\ pc = "idle"
  /\ IF resetEmail = ""
     THEN /\ toast' = EmailRequiredToast
          /\ UNCHANGED <<loading, pc>>
     ELSE /\ loading' = TRUE /\ pc' = "forgot_reset"
          /\ UNCHANGED toast
  /\ UNCHANGED <<resetEmail, resetSent, formEmail, settingsPc, consoleError>>
  /\ UNCHANGED <<email, password, otp, signupOtp, loginStep, signupStep, signupData,
                 tab, page, session, cap, precheckOk, otpIssued, otpVerified,
                 signupVerified>>
  /\ UNCHANGED <<mfaVars, otpVars>>

\* ForgotPasswordDone telling the user that the provider reported an error
ForgotPasswordDoneReporting ==
  /\ pc = "forgot_reset"
  /\ \E error \in BOOLEAN :
       IF error
       THEN /\ toast' = ResetFailedToast
            /\ UNCHANGED resetSent
       ELSE /\ resetSent' = TRUE
            /\ toast' = CheckYourEmailToast
  /\ loading' = FALSE /\ pc' = "idle"
  /\ UNCHANGED <<resetEmail, formEmail, settingsPc, consoleError>>
  /\ UNCHANGED <<email, password, otp, signupOtp, loginStep, signupStep, signupData,
                 tab, page, session, cap, precheckOk, otpIssued, otpVerified,
                 signupVerified>>
  /\ UNCHANGED <<mfaVars, otpVars>>

\* handleForgotPassword after resetPasswordForEmail returned {error}
ForgotPasswordDone ==
  /\ pc = "forgot_reset"
  /\ \E error \in BOOLEAN :
       consoleError' = IF error THEN ResetErrorLog ELSE consoleError
  /\ resetSent' = TRUE
  /\ toast' = CheckYourEmailToast
  /\ loading' = FALSE /\ pc' = "idle"
  /\ UNCHANGED <<resetEmail, formEmail, settingsPc>>
  /\ UNCHANGED <<email, password, otp, signupOtp, loginStep, signupStep, signupData,
                 tab, page, session, cap, precheckOk, otpIssued, otpVerified,
                 signupVerified>>
  /\ UNCHANGED <<mfaVars, otpVars>>

\* Settings page: form.reset with the profile row
SettingsLoaded(e) ==
  /\ formEmail' = e
  /\ UNCHANGED <<resetEmail, resetSent, settingsPc, toast, consoleError>>
  /\ UNCHANGED <<mfaVars, authVars, otpVars>>

\* Settings page: handlePasswordReset up to the await of resetPasswordForEmail
handlePasswordReset ==
  /\ settingsPc = "idle"
  /\ IF formEmail = ""
     THEN /\ toast' = EmailNotFoundToast
          /\ UNCHANGED settingsPc
     ELSE /\ settingsPc' = "reset"
          /\ UNCHANGED toast
  /\ UNCHANGED <<resetEmail, resetSent, formEmail, consoleError>>
  /\ UNCHANGED <<mfaVars, authVars, otpVars>>

\* Settings page: handlePasswordReset after resetPasswordForEmail returned {error}
PasswordResetDone ==
  /\ settingsPc = "reset"
  /\ \E error \in BOOLEAN :
       consoleError' = IF error THEN ResetErrorLog ELSE consoleError
  /\ toast' = ResetRequestedToast
  /\ settingsPc' = "idle"
  /\ UNCHANGED <<resetEmail, resetSent, formEmail>>
  /\ UNCHANGED <<mfaVars, authVars, otpVars>>

ResetNext ==
  \/ ClickLoginTab
  \/ ClickForgotTab
  \/ \E e \in Emails : TypeResetEmail(e)
  \/ SendAnotherLink
  \/ handleForgotPassword
  \/ ForgotPasswordDone
  \/ \E e \in Emails : SettingsLoaded(e)
  \/ handlePasswordReset
  \/ PasswordResetDone

----------------------------------------------------------------------------
(* Email OTP challenge service: send-otp, verify-otp *)

\* the email of a send-otp body as typed ("" is a missing email) and the
\* spellings of it a verify-otp body can carry
OtpEmails == {"", "A@x.io"}
VerifyEmails == {"a@x.io", "A@x.io"}
OtpTypes == {"login", "signup"}

\* String.prototype.toLowerCase
toLowerCase(e) == IF e = "A@x.io" THEN "a@x.io" ELSE e

\* the (email, type) pairs challenges are stored for
OtpKeys == { <<toLowerCase(e), t>> : e \in OtpEmails \ {""}, t \in OtpTypes }

\* the values generateOtp() draws in a run: the ends of its range
generateOtp == {OtpBase, OtpBase + OtpSpan - 1}
\* the codes a caller can submit: the drawn ones and one not drawn
OtpCodeInputs == generateOtp \cup {OtpBase + 1}

OtpResponse(status, body) == [status |-> status, body |-> body]

\* a send-otp request in flight: the handler's locals and the await it stands at
SendRequest(e, t, at, otpCode, expiresAt) ==
  [email |-> e, type |-> t, pc |-> at, otpCode |-> otpCode, expiresAt |-> expiresAt]

\* the answer of a send-otp request (mailed: the mail service took the email) or
\* of a verifyOtp call (otpCode: the code submitted; success: what the client sees)
OtpAnswer(op, otpCode, mailed, success, resp) ==
  [op |-> op, otpCode |-> otpCode, mailed |-> mailed, success |-> success, resp |-> resp]
NoOtpAnswer == OtpAnswer("none", 0, FALSE, FALSE, OtpResponse(0, ""))

\* the ids gen_random_uuid() can draw: the rows the table can hold
RowIds == {"id1", "id2"}

OtpCanAccept == Cardinality(otpReqs) < Cardinality(Slots)

\* the rows of a table that satisfy a filter, and the others
RowsFor(table, e, t) == { row \in BagToSet(table) : row.email = e /\ row.type = t }
Without(table, rows) == [row \in BagToSet(table) \ rows |-> table[row]]

\* .delete().eq("email", e).eq("type", t)
DeleteFor(table, e, t) == Without(table, RowsFor(table, e, t))

\* .insert({email, otp_code, type, expires_at, verified: false}); id is generated
InsertRow(table, e, otpCode, t, expiresAt) ==
  table (+) SetToBag({[email |-> e, otp_code |-> otpCode, type |-> t,
                       expires_at |-> expiresAt, verified |-> FALSE]})

\* ExpiresAt without the added lifetime
ExpiresAtNow(time) == time

\* new Date(Date.now() + 10 * 60 * 1000)
ExpiresAt(time) == time + ExpiryMinutes

OtpInit ==
  /\ email_otp = EmptyBag
  /\ clock = 0
  /\ otpReqs = {}
  /\ otpAnswer = NoOtpAnswer
  /\ overlap = FALSE

\* send-otp up to the delete of the prior rows (its result is not read)
SendOtpDelete(e, t) ==
  /\ OtpCanAccept
  /\ IF e = ""
     THEN /\ otpAnswer' = OtpAnswer("send", 0, FALSE, FALSE,
                                    OtpResponse(400, "error:Email is required"))
          /\ UNCHANGED <<email_otp, otpReqs, overlap>>
     ELSE \E otpCode \in generateOtp, deleted \in BOOLEAN :
            LET expiresAt == ExpiresAt(clock)
                k == <<toLowerCase(e), t>>
            IN /\ email_otp' = IF deleted THEN DeleteFor(email_otp, toLowerCase(e), t)
                               ELSE email_otp
               /\ otpReqs' = otpReqs \cup {SendRequest(e, t, "insert", otpCode, expiresAt)}
               /\ overlap' = (overlap \/ \E q \in otpReqs :
                                            <<toLowerCase(q.email), q.type>> = k)
               /\ otpAnswer' = NoOtpAnswer
  /\ UNCHANGED clock
  /\ UNCHANGED <<mfaVars, authVars, uiVars>>

\* send-otp: the insert of the new row; insertError throws
SendOtpInsert(q) ==
  /\ q \in otpReqs /\ q.pc = "insert"
  /\ BagCardinality(email_otp) < Cardinality(RowIds)
  /\ \E insertError \in BOOLEAN :
       IF insertError
       THEN /\ otpReqs' = otpReqs \ {q}
            /\ otpAnswer' = OtpAnswer("send", 0, FALSE, FALSE,
                                      OtpResponse(500, "error:Failed to generate OTP"))
            /\ UNCHANGED email_otp
       ELSE /\ email_otp' = InsertRow(email_otp, toLowerCase(q.email), q.otpCode, q.type,
                                      q.expiresAt)
            /\ otpReqs' = (otpReqs \ {q}) \cup {[q EXCEPT !.pc = "send", !.expiresAt = 0]}
            /\ otpAnswer' = NoOtpAnswer
  /\ UNCHANGED <<clock, overlap>>
  /\ UNCHANGED <<mfaVars, authVars, uiVars>>

\* the messages the mail service answers a rejected request with
MailErrors == {"", "mail:You can only send testing emails to your own email address"}

\* the body of the 500 answer: error.message || "Failed to send OTP", where the
\* error was thrown with emailResult.message || "Failed to send email"
SendFailureBody(message) ==
  IF message = "" THEN "error:Failed to send email" ELSE "error:" \o message

\* send-otp: the email request to the mail service and the answer
SendOtpEmail(q) ==
  /\ q \in otpReqs /\ q.pc = "send"
  /\ otpReqs' = otpReqs \ {q}
  /\ \E ok \in BOOLEAN, message \in MailErrors :
       otpAnswer' =
         IF ok
         THEN OtpAnswer("send", 0, TRUE, TRUE,
                        OtpResponse(200, "success:OTP sent successfully"))
         ELSE OtpAnswer("send", 0, FALSE, FALSE,
                        OtpResponse(500, SendFailureBody(message)))
  /\ UNCHANGED <<email_otp, clock, overlap>>
  /\ UNCHANGED <<mfaVars, authVars, uiVars>>

\* verify-otp: the unexpired, unverified rows of (email, type) with the code
MatchingRows(table, e, otpCode, t, time) ==
  { row \in RowsFor(table, toLowerCase(e), t) :
      row.otp_code = otpCode /\ ~ row.verified /\ row.expires_at >= time }

\* verify-otp: the matched challenges are marked verified
ConsumeRows(table, rows) ==
  Without(table, rows) (+)
    [marked \in { [row EXCEPT !.verified = TRUE] : row \in rows } |->
       table[[marked EXCEPT !.verified = FALSE]]]

\* verifyOtpSuccess without `if (error) throw error`
verifyOtpSuccessAlways(invokeOk, status) == TRUE

\* verifyOtp of the client: success unless invoke reports an error
verifyOtpSuccess(invokeOk, status) == invokeOk /\ status = 200

\* verifyOtp(targetEmail, otpCode, type): invoke('verify-otp') and its result
verifyOtp(targetEmail, otpCode, type) ==
  /\ \E invokeOk \in BOOLEAN :
       LET rows == MatchingRows(email_otp, targetEmail, otpCode, type, clock)
           matched == rows # {}
           resp == IF matched THEN OtpResponse(200, "")
                   ELSE OtpResponse(400, "error:Invalid or expired OTP")
       IN /\ email_otp' = IF matched THEN ConsumeRows(email_otp, rows) ELSE email_otp
          /\ otpAnswer' = OtpAnswer("verify", otpCode, FALSE,
                                    verifyOtpSuccess(invokeOk, resp.status), resp)
  /\ UNCHANGED <<clock, otpReqs, overlap>>
  /\ UNCHANGED <<mfaVars, authVars, uiVars>>

\* the clock is read every TickMinutes: once and again after a challenge's life
TickMinutes == ExpiryMinutes + 1

\* time passes; no request stays in flight that long
OtpTick ==
  /\ otpReqs = {}
  /\ clock + TickMinutes <= MaxClock
  /\ clock' = clock + TickMinutes
  /\ otpAnswer' = NoOtpAnswer
  /\ UNCHANGED <<email_otp, otpReqs, overlap>>
  /\ UNCHANGED <<mfaVars, authVars, uiVars>>

OtpNext ==
  \/ \E e \in OtpEmails, t \in OtpTypes : SendOtpDelete(e, t)
  \/ \E q \in otpReqs : SendOtpInsert(q)
  \/ \E q \in otpReqs : SendOtpEmail(q)
  \/ \E e \in VerifyEmails, c \in OtpCodeInputs, t \in OtpTypes : verifyOtp(e, c, t)
  \/ OtpTick

----------------------------------------------------------------------------
(* Specifications *)

vars == <<mfaVars, authVars, otpVars, uiVars>>

Init == MfaInit /\ AuthInit /\ OtpInit /\ UiInit

\* the MFA functions under concurrent requests
Next == MfaNext
Spec == Init /\ [][Next]_vars

\* the Auth page
SpecAuth == Init /\ [][AuthNext]_vars

\* the email OTP service under concurrent requests
SpecOtp == Init /\ [][OtpNext]_vars

\* the password reset requests of the Auth page and of the Settings page
SpecReset == Init /\ [][ResetNext]_vars

\* Tutor page: the headers of its fetch are Content-Type and Authorization, so
\* the request carries no X-MFA-Token
TutorMfaToken == NoToken

\* Tutor page, sendMessage: the POST to ai-tutor with the session's bearer token
sendMessage(u) == GateLookup("ai-tutor", u, TutorMfaToken)

\* a user who enrols in MFA and uses the Tutor page; the gate's validate call
\* needs a token and is never reached by the page's requests
TutorNext ==
  \/ \E u \in Callers : Setup(u)
  \/ \E u \in Callers, token \in Tokens : VerifyRead(u, token)
  \/ \E r \in reqs : VerifyUpdate(r)
  \/ \E u \in Callers : Check(u)
  \/ \E u \in Callers : sendMessage(u)
  \/ \E r \in reqs : GatePrivileged(r)
  \/ \E r \in reqs : Deliver(r)
  \/ Tick

SpecTutor == Init /\ [][TutorNext]_vars

\* the rows that setup and verify of a user leave in the store
StoredRows ==
  { [secret |-> encryptSecret(secret, iv), enabled |-> enabled] :
      secret \in Secrets, iv \in IVs, enabled \in BOOLEAN }

\* the users who are not calling have enrolled or not
InitUsers ==
  /\ \E others \in SUBSET (Users \ Callers) : \E table \in [others -> StoredRows] :
       /\ mfa_secrets = table
       /\ verifyOk = [x \in Users |-> x \in others /\ table[x].enabled]
       /\ verifiedSecret = [x \in Users |-> x \in others /\ table[x].enabled]
  /\ now = 1
  /\ reqs = {}
  /\ AuthInit
  /\ OtpInit
  /\ UiInit

\* mfa-setup called by one user, within one time step, while other users are
\* enrolled
SetupNext ==
  \/ \E u \in Callers : Setup(u)
  \/ \E u \in Callers, token \in Tokens : VerifyRead(u, token)
  \/ \E r \in reqs : VerifyUpdate(r)
  \/ \E u \in Callers : Check(u)
  \/ \E u \in Callers, token \in Tokens : Validate(u, token)
  \/ \E r \in reqs : Deliver(r)

SpecUsers == InitUsers /\ [][SetupNext]_vars

\* a row stored by the earlier revision of mfa-setup: secret.base32 itself
LegacySecrets == Secrets

\* the store holds a legacy row of a caller, pending or enabled by that revision
InitLegacy ==
  /\ \E u \in Callers, secret \in LegacySecrets, enabled \in BOOLEAN :
       /\ mfa_secrets = [x \in {u} |-> [secret |-> secret, enabled |-> enabled]]
       /\ verifyOk = [x \in Users |-> x = u /\ enabled]
       /\ verifiedSecret = [x \in Users |-> x = u /\ enabled]
  /\ now = 1
  /\ reqs = {}
  /\ AuthInit
  /\ OtpInit
  /\ UiInit

\* the MFA functions serving a store that the earlier revision wrote
SpecLegacy == InitLegacy /\ [][Next]_vars

----------------------------------------------------------------------------
(* Properties *)

Enabled(table, u) == \E row \in Select(table, u) : row.enabled

\* the requests of authenticated callers answered by the step
NewAnswers == { r \in reqs' \ reqs : r.pc = "done" /\ r.user \in Users }

\* the token is the code of the stored secret at a step within the window
TokenMatches(table, u, token) ==
  \E row \in Select(table, u) : \E d \in {-1, 0, 1} :
    token = TotpGenerate(decryptSecret(row.secret), now + d)

\* C1: check answers enabled:false while the caller has no record or only a
\* pending one, and answers enabled:true only if a verify of that caller
\* answered valid:true before; a record is enabled only after such a verify.
C1_CheckFollowsVerify ==
  [][ /\ \A r \in NewAnswers : r.action = "check" =>
           /\ r.resp.status = 200
           /\ r.resp.body \in {"enabled:true", "enabled:false"}
           /\ r.resp.body = "enabled:true" => verifyOk[r.user]
           /\ ~ Enabled(mfa_secrets, r.user) => r.resp.body = "enabled:false"
      /\ \A u \in Users : Enabled(mfa_secrets', u) => verifyOk'[u] ]_vars

\* C1 witness: a check answered enabled:true after a verify answered valid:true
C1_Witness ==
  \E r \in reqs : /\ r.action = "check" /\ r.pc = "done"
                  /\ r.resp.body = "enabled:true" /\ verifyOk[r.user]

\* C2: once a record is enabled no step makes it not enabled again.
C2_NeverBackToPending ==
  [][ \A u \in Users : Enabled(mfa_secrets, u) => Enabled(mfa_secrets', u) ]_vars

C4_ValidateReadOnly ==
  [][ (\/ \E r \in NewAnswers : r.action = "validate"
       \/ \E r \in reqs \ reqs' : r.action = "gated" /\ r.pc = "invoke")
      => mfa_secrets' = mfa_secrets ]_vars

\* C4 witness: validate accepted a token on an active record, still active
C4_Witness ==
  \E r \in reqs : /\ r.action = "validate" /\ r.pc = "done" /\ r.token # NoToken
                  /\ r.resp.body = "valid:true" /\ Enabled(mfa_secrets, r.user)

C6_EnabledSecretVerified ==
  \A u \in Users : Enabled(mfa_secrets, u) => verifiedSecret[u]

\* C7: when verify answers valid:true the record of the caller is enabled.
C7_ValidImpliesEnabled ==
  [][ \A r \in NewAnswers : (r.action = "verify" /\ r.resp.body = "valid:true") =>
        Enabled(mfa_secrets', r.user) ]_vars

\* C8: until the OTP verify of the login attempt succeeded, the session of the
\* password pre-check is gone by the time the OTP is requested, and the client
\* holds no session while loginStep is 'otp'.
C8_NoSessionBeforeOtp ==
  (~ otpVerified /\ (pc = "login_sendotp" \/ loginStep = "otp")) => ~ session

\* C9: signUp is called only by the handler run whose verifyOtp succeeded; a
\* failed verifyOtp ends the handler without signUp and leaves signupStep.
C9_SignUpAfterVerify ==
  [][ /\ (pc' = "signup_create" /\ pc # "signup_create") =>
           (pc = "signup_verify" /\ signupVerified')
      /\ (pc = "signup_verify" /\ pc' # "signup_verify" /\ ~ signupVerified') =>
           (pc' = "idle" /\ signupStep' = signupStep) ]_vars

\* C9 witness: signUp is in flight after the code was verified on the code view
C9_Witness == pc = "signup_create" /\ signupVerified /\ signupStep = "complete"

\* C10: loginStep goes from 'credentials' to 'otp' only after the pre-check and
\* the issue of the login OTP succeeded; a failed verify and a resend leave
\* loginStep; the redirect happens only after a successful verify.
C10_LoginSteps ==
  [][ /\ (loginStep = "credentials" /\ loginStep' = "otp") =>
           (pc = "login_sendotp" /\ precheckOk /\ otpIssued')
      /\ (pc = "otp_verify" /\ pc' = "idle") => loginStep' = loginStep
      /\ (pc = "resend" /\ pc' = "idle") => loginStep' = loginStep
      /\ (page = "auth" /\ page' = "dashboard") =>
           (pc = "otp_signin" /\ otpVerified /\ session') ]_vars

\* C10 witness: the OTP view is shown after pre-check and issue succeeded
C10_Witness == loginStep = "otp" /\ pc = "idle" /\ precheckOk /\ otpIssued

----------------------------------------------------------------------------
(* Properties of the email OTP service *)

OtpKeyOf(q) == <<toLowerCase(q.email), q.type>>
RowsOfKey(table, k) == RowsFor(table, k[1], k[2])
CountOf(table, rows) == BagCardinality([row \in rows |-> table[row]])
\* the non-expired, unverified rows of a pair
ActiveRows(table, k, time) ==
  { row \in RowsOfKey(table, k) : ~ row.verified /\ row.expires_at >= time }
\* the send-otp requests whose insert stored a row in this step
InsertedBy ==
  { q \in otpReqs : /\ q.pc = "insert" /\ q \notin otpReqs'
                    /\ BagCardinality(email_otp') = BagCardinality(email_otp) + 1 }
\* the rows a verify marked in this step
Marked ==
  { row \in BagToSet(email_otp') :
      row.verified /\ CopiesIn(row, email_otp') > CopiesIn(row, email_otp) }

\* C11: at most one non-expired, unverified challenge row per (email, type), in
\* every reachable state of the store, concurrent send-otp requests included.
C11_OneActiveChallenge ==
  \A k \in OtpKeys : CountOf(email_otp, ActiveRows(email_otp, k, clock)) <= 1

\* C12: when issue calls for a pair follow one another (the spelling of the email
\* may differ in case), the insert of a call leaves no unverified row of the pair
\* with another code, and a verify succeeds only with the code of a stored row:
\* the code of the earlier call fails unless it equals the later one.
C12_SecondIssueSupersedes ==
  [][ /\ \A q \in InsertedBy : ~ overlap' =>
             \A row \in RowsOfKey(email_otp', OtpKeyOf(q)) :
                ~ row.verified => row.otp_code = q.otpCode
      /\ (otpAnswer'.op = "verify" /\ otpAnswer'.success) =>
             \E row \in Marked : row.otp_code = otpAnswer'.otpCode ]_vars

\* C13: a successful verify leaves no row that the same email, code and purpose
\* match, a verify succeeds only by consuming a row, and only the insert of a
\* new issue stores a row that can be matched again.
C13_SingleUse ==
  [][ /\ \A row \in Marked :
             MatchingRows(email_otp', row.email, row.otp_code, row.type, clock') = {}
      /\ (otpAnswer'.op = "verify" /\ otpAnswer'.success) => Marked # {}
      /\ clock' >= clock
      /\ \A row \in BagToSet(email_otp') :
             (~ row.verified /\ CopiesIn(row, email_otp') > CopiesIn(row, email_otp)) =>
                InsertedBy # {} ]_vars

\* C13 witness: a verify is refused for a code that a verify consumed before
C13_Witness ==
  /\ otpAnswer.op = "verify" /\ ~ otpAnswer.success /\ otpAnswer.resp.status = 400
  /\ \E row \in BagToSet(email_otp) : row.verified /\ row.otp_code = otpAnswer.otpCode
  /\ \A row \in BagToSet(email_otp) : row.verified

\* C14: a request computes expires_at as its start time plus 10 minutes and the
\* row is stored with that value; a verify succeeds only on rows whose
\* expires_at is not in the past.
C14_ExpiryTenMinutes ==
  [][ /\ \A q \in otpReqs' \ otpReqs :
             q.pc = "insert" => q.expiresAt = clock + ExpiryMinutes
      /\ \A q \in InsertedBy :
             \E row \in BagToSet(email_otp') :
                /\ CopiesIn(row, email_otp') > CopiesIn(row, email_otp)
                /\ row.expires_at = q.expiresAt
      /\ \A row \in Marked : row.expires_at >= clock ]_vars

\* C14 witness: the code of a stored, unverified row is refused after expires_at
C14_Witness ==
  /\ otpAnswer.op = "verify" /\ ~ otpAnswer.success /\ otpAnswer.resp.status = 400
  /\ BagCardinality(email_otp) = 1
  /\ \E row \in BagToSet(email_otp) :
       /\ ~ row.verified /\ row.otp_code = otpAnswer.otpCode
       /\ row.expires_at = ExpiryMinutes /\ row.expires_at < clock

\* C15: an email that the mail service did not take is answered 500, never
\* success, and when issue calls for a pair follow one another the insert of the
\* retry leaves exactly one row for the pair, the new one.
C15_SendFailureAndRetry ==
  [][ /\ otpAnswer'.op = "send" =>
             /\ otpAnswer'.resp.status = 200 => otpAnswer'.mailed
             /\ (\E q \in otpReqs \ otpReqs' : q.pc = "send") =>
                   otpAnswer'.resp.status = IF otpAnswer'.mailed THEN 200 ELSE 500
      /\ \A q \in InsertedBy : ~ overlap' =>
             /\ CountOf(email_otp', RowsOfKey(email_otp', OtpKeyOf(q))) = 1
             /\ \A row \in RowsOfKey(email_otp', OtpKeyOf(q)) :
                   row.otp_code = q.otpCode /\ row.expires_at = q.expiresAt ]_vars

----------------------------------------------------------------------------
(* Further properties of the MFA functions *)

\* C16: a verify of a caller without a record is answered 400 'MFA not setup',
\* stores nothing, and the caller's check stays at enabled=false.
C16_VerifyNotConfigured ==
  [][ \A r \in NewAnswers :
        (r.action = "verify" /\ Select(mfa_secrets, r.user) = {}) =>
           /\ r.resp = Response(400, "error:MFA not setup")
           /\ mfa_secrets' = mfa_secrets
           /\ ~ Enabled(mfa_secrets', r.user) ]_vars

\* C16 witness: a verify was answered 400 and the caller still has no record
C16_Witness ==
  \E r \in reqs : /\ r.action = "verify" /\ r.pc = "done" /\ r.resp.status = 400
                  /\ Select(mfa_secrets, r.user) = {}

\* C17: when the stored secret cannot be decrypted, verify and validate answer
\* valid:false with status 200 rather than an error, and the record is unchanged.
C17_DecryptFailClosed ==
  [][ /\ \A r \in NewAnswers :
           (/\ r.action = "validate"
            /\ \E row \in Select(mfa_secrets, r.user) :
                 row.enabled /\ decryptSecret(row.secret) = Failure) =>
              /\ r.resp = Response(200, "valid:false")
              /\ mfa_secrets' = mfa_secrets
      /\ \A q \in reqs \ reqs' :
           (q.action = "verify" /\ q.pc = "update" /\ decryptSecret(q.secret) = Failure) =>
              /\ \A r \in NewAnswers :
                   (r.user = q.user /\ r.action = "verify") =>
                      r.resp = Response(200, "valid:false")
              /\ mfa_secrets' = mfa_secrets ]_vars

\* the record keyed by user u
OwnRow(table, u) == IF u \in DOMAIN table THEN {table[u]} ELSE {}

\* the requests a step accepted, moved or answered
Moved == (reqs' \ reqs) \cup (reqs \ reqs')

\* the answer of verify to a token, from the secret the handler read
VerifyAnswerFor(secret, token, timeStep) ==
  LET decryptedSecret == decryptSecret(secret)
      delta == IF decryptedSecret = Failure THEN "throw"
               ELSE TotpValidate(decryptedSecret, token, timeStep, Window)
  IN IF delta = "throw" THEN GenericError
     ELSE Response(200, IF delta = "delta" THEN "valid:true" ELSE "valid:false")

\* C18: a request of user A leaves the record of every other user as it was (the
\* users who send no request keep their record throughout), and the answer to A
\* is the one computed from A's own record alone.
C18_OwnRecordOnly ==
  [][ /\ \A v \in Users :
           (Moved # {} /\ \A r \in Moved : r.user # v) =>
              OwnRow(mfa_secrets', v) = OwnRow(mfa_secrets, v)
      /\ \A v \in Users \ Callers : OwnRow(mfa_secrets', v) = OwnRow(mfa_secrets, v)
      /\ \A q \in reqs' \ reqs :
           (q.action = "verify" /\ q.pc = "update") =>
              \E row \in OwnRow(mfa_secrets, q.user) : q.secret = row.secret
      /\ \A r \in NewAnswers :
           LET own == OwnRow(mfa_secrets, r.user)
           IN /\ r.action = "check" =>
                   r.resp = Response(200, IF \E row \in own : row.enabled
                                          THEN "enabled:true" ELSE "enabled:false")
              /\ r.action = "validate" =>
                   r.resp = ValidateResponse(own, r.token, now)
              /\ r.action = "verify" =>
                   IF own = {} THEN r.resp = Response(400, "error:MFA not setup")
                   ELSE \E q \in reqs \ reqs' :
                          /\ q.user = r.user /\ q.action = "verify" /\ q.pc = "update"
                          /\ r.resp = VerifyAnswerFor(q.secret, q.token, now)
              /\ (r.action = "setup" /\ r.resp.status = 200) =>
                   \E row \in OwnRow(mfa_secrets', r.user) :
                      ~ row.enabled /\ decryptSecret(row.secret) = r.resp.secret ]_vars

\* C18 witness: alice enabled her record by a verify while bob's stays pending
C18_Witness ==
  /\ \E r \in reqs : /\ r.user = "alice" /\ r.action = "verify" /\ r.pc = "done"
                     /\ r.resp.body = "valid:true"
  /\ Enabled(mfa_secrets, "alice")
  /\ \E row \in OwnRow(mfa_secrets, "bob") : ~ row.enabled

\* the values encryptSecret returns
Ciphertexts == { encryptSecret(secret, iv) : secret \in Secrets, iv \in IVs }

\* C19: every stored secret is an output of encryptSecret and no plaintext seed,
\* and only the 200 answer of setup carries a secret: the answers of verify,
\* check and validate (and every error answer) carry none.
C19_SecretOnlyInSetupAnswer ==
  /\ \A u \in DOMAIN mfa_secrets :
       mfa_secrets[u].secret \in Ciphertexts /\ mfa_secrets[u].secret \notin Secrets
  /\ \A r \in reqs :
       (r.pc = "done" /\ r.resp.secret # <<>>) =>
          /\ r.action = "setup" /\ r.resp.status = 200
          /\ r.resp.secret \in Secrets

\* C19 witness: a setup answer carries the seed, the store holds its ciphertext,
\* and an accepted verify was answered without it
C19_Witness ==
  \E r \in reqs, v \in reqs :
    /\ r.action = "setup" /\ r.pc = "done" /\ r.resp.secret \in Secrets
    /\ \E row \in Select(mfa_secrets, r.user) :
         row.secret # r.resp.secret /\ decryptSecret(row.secret) = r.resp.secret
    /\ v.user = r.user /\ v.action = "verify" /\ v.pc = "done"
    /\ v.resp.body = "valid:true" /\ v.resp.secret = <<>>

\* C20: while no verify of a user has answered valid:true the record is pending;
\* every completed setup leaves the record pending with the secret it returned,
\* so the record holds the secret of the last setup that wrote; a verify reads
\* that secret and answers valid:true only to a token that is a code of the
\* secret it read, so a code of a superseded secret is refused unless it is also
\* a code of the stored one.
C20_LastSetupWins ==
  [][ /\ \A u \in Users : ~ verifyOk'[u] => ~ Enabled(mfa_secrets', u)
      /\ \A r \in NewAnswers :
           (r.action = "setup" /\ r.resp.status = 200) =>
              \E row \in OwnRow(mfa_secrets', r.user) :
                 ~ row.enabled /\ decryptSecret(row.secret) = r.resp.secret
      /\ \A u \in DOMAIN mfa_secrets' :
           (u \notin DOMAIN mfa_secrets \/ mfa_secrets'[u].secret # mfa_secrets[u].secret) =>
              \E r \in reqs' :
                 /\ r.user = u /\ r.action = "setup" /\ r.pc = "done"
                 /\ r.resp.status = 200
                 /\ r.resp.secret = decryptSecret(mfa_secrets'[u].secret)
      /\ \A q \in reqs' \ reqs :
           (q.action = "verify" /\ q.pc = "update") =>
              \E row \in OwnRow(mfa_secrets, q.user) : q.secret = row.secret
      /\ \A r \in NewAnswers :
           (r.action = "verify" /\ r.resp.body = "valid:true") =>
              \E q \in reqs \ reqs' :
                 /\ q.user = r.user /\ q.action = "verify" /\ q.pc = "update"
                 /\ \E d \in (0 - Window)..Window :
                      q.token = TotpGenerate(decryptSecret(q.secret), now + d) ]_vars

\* C20 witness: with no verify accepted yet, the pending record holds the secret
\* of a later setup, and a verify that read it carries a code of the superseded
\* secret that is no code of the stored one
C20_Witness ==
  \E r \in reqs, q \in reqs :
    /\ r.action = "setup" /\ r.pc = "done" /\ r.resp.status = 200
    /\ ~ verifyOk[r.user]
    /\ \E row \in OwnRow(mfa_secrets, r.user) :
         /\ ~ row.enabled /\ decryptSecret(row.secret) # r.resp.secret
         /\ q.secret = row.secret
    /\ q.user = r.user /\ q.action = "verify" /\ q.pc = "update"
    /\ \E d \in (0 - Window)..Window : q.token = TotpGenerate(r.resp.secret, now + d)
    /\ \A d \in (0 - Window)..Window :
         q.token # TotpGenerate(decryptSecret(q.secret), now + d)

\* the codes of the steps at offset -1, 0 and +1 from timeStep
CodesAround(secret, timeStep) ==
  { TotpGenerate(secret, timeStep + d) : d \in {-1, 0, 1} }

\* C21: verify and validate accept a token string exactly when it is the code
\* of the step before, the current step or the step after; the code of the
\* step before is accepted with window 1 and refused with window 0, and the
\* codes of the steps two away are refused.
C21_WindowOfOne ==
  [][ /\ \A q \in reqs \ reqs' :
           (q.action = "verify" /\ q.pc = "update" /\ q.token # NoToken) =>
              \A secret \in {decryptSecret(q.secret)} \ {Failure} :
              \A r \in NewAnswers :
                 (r.user = q.user /\ r.action = "verify") =>
                    /\ r.resp.status = 200
                    /\ r.resp.body = "valid:true" <=> q.token \in CodesAround(secret, now)
      /\ \A r \in NewAnswers :
           (r.action = "validate" /\ r.token # NoToken) =>
              \A row \in OwnRow(mfa_secrets, r.user) :
                 row.enabled =>
                    \A secret \in {decryptSecret(row.secret)} :
                       /\ r.resp.status = 200
                       /\ r.resp.body = "valid:true" <=> r.token \in CodesAround(secret, now)
      /\ \A u \in DOMAIN mfa_secrets' :
           (now' # now \/ OwnRow(mfa_secrets', u) # OwnRow(mfa_secrets, u)) =>
           \A secret \in {decryptSecret(mfa_secrets'[u].secret)} :
              /\ TotpValidate(secret, TotpGenerate(secret, now' - 1), now', 1) = "delta"
              /\ TotpValidate(secret, TotpGenerate(secret, now' - 1), now', 0) = "null"
              /\ TotpValidate(secret, TotpGenerate(secret, now' - 2), now', 1) = "null"
              /\ TotpValidate(secret, TotpGenerate(secret, now' + 2), now', 1) = "null" ]_vars

\* C21 witness: validate accepted the code of the step before the current one
C21_Witness ==
  \E r \in reqs :
    /\ r.action = "validate" /\ r.pc = "done" /\ r.resp.body = "valid:true"
    /\ \E row \in OwnRow(mfa_secrets, r.user) :
         /\ row.enabled
         /\ r.token = TotpGenerate(decryptSecret(row.secret), now - 1)
         /\ r.token # TotpGenerate(decryptSecret(row.secret), now)

\* the changes made to one byte of a blob
ByteChanges == {1, 128, 255}

\* the blob with byte i of its decoded form changed
TamperByte(blob, i, change) ==
  LET combined == Atob(blob)
  IN Btoa([combined EXCEPT ![i] = (@ + change) % 256])

\* the blobs encryptSecret produces
SealedBlobs == { encryptSecret(secret, iv) : secret \in Secrets, iv \in IVs }

\* the sealed blobs that still decrypt after a change to one of their bytes
OpenWhenTampered ==
  { blob \in SealedBlobs :
      \E i \in 1..Len(Atob(blob)), change \in ByteChanges :
         decryptSecret(TamperByte(blob, i, change)) # Failure }

\* C22: the blob that setup stores decrypts to the secret that was encrypted
\* (IvLen bytes of nonce are prepended by encryptSecret and split off by
\* decryptSecret), and every blob that differs from it in one byte of nonce,
\* ciphertext or tag fails to decrypt.
C22_CipherRoundTrip ==
  [][ \A r \in NewAnswers :
        (r.action = "setup" /\ r.resp.status = 200) =>
           \A row \in OwnRow(mfa_secrets', r.user) :
              /\ decryptSecret(row.secret) = r.resp.secret
              /\ \A combined \in {Atob(row.secret)} :
                   /\ combined # Failure
                   /\ Len(combined) = IvLen + Len(r.resp.secret) + 1
                   /\ \E iv \in IVs : /\ SubSeq(combined, 1, IvLen) = iv
                                      /\ row.secret = encryptSecret(r.resp.secret, iv)
              /\ row.secret \in SealedBlobs
              /\ row.secret \notin OpenWhenTampered ]_vars

\* C22 witness: a stored blob opens to a secret, and fails to open once a byte
\* of its nonce or of its ciphertext is changed
C22_Witness ==
  \E u \in DOMAIN mfa_secrets :
    /\ decryptSecret(mfa_secrets[u].secret) \in Secrets
    /\ decryptSecret(TamperByte(mfa_secrets[u].secret, 1, 1)) = Failure
    /\ decryptSecret(TamperByte(mfa_secrets[u].secret, IvLen + 1, 1)) = Failure

----------------------------------------------------------------------------
(* Properties of the pages *)

\* C23: a password reset request that the identity provider answered ends in
\* one outcome whether or not the provider reported an error: the Auth page
\* shows the sent view and the 'Check your email' toast, the Settings page the
\* 'Password reset requested' toast, and nothing else the user sees changes.
C23_ResetOutcomeUniform ==
  [][ /\ (pc = "forgot_reset" /\ pc' = "idle") =>
           /\ resetSent' /\ ~ loading' /\ toast' = CheckYourEmailToast
           /\ resetEmail' = resetEmail /\ tab' = tab /\ page' = page
           /\ formEmail' = formEmail
      /\ (settingsPc = "reset" /\ settingsPc' = "idle") =>
           /\ toast' = ResetRequestedToast
           /\ formEmail' = formEmail
           /\ resetEmail' = resetEmail /\ resetSent' = resetSent
           /\ loading' = loading /\ tab' = tab /\ page' = page ]_vars

\* C23 witness: the provider reported an error, and the page shows the sent
\* view with the 'Check your email' toast
C23_Witness ==
  /\ consoleError = ResetErrorLog
  /\ resetSent /\ ~ loading /\ pc = "idle" /\ toast = CheckYourEmailToast

\* the error bodies that send-otp words itself
FixedOtpErrors ==
  {"error:Failed to generate OTP", "error:Failed to send email", "error:Failed to send OTP"}

\* C24: every 500 answer of send-otp carries one of the handler's own fixed
\* error texts, never the message of the mail service or of an exception.
C24_FixedErrorBodies ==
  otpAnswer.resp.status = 500 => otpAnswer.resp.body \in FixedOtpErrors

\* C25: a gated request whose lookup saw enabled = true and whose token is no
\* code at all (it has not the length of a code, so it matches no secret ever
\* stored) never reaches the privileged action.
C25_WrongTokenNeverPrivileged ==
  \A r \in reqs :
    (r.action = "gated" /\ r.sawEnabled /\ r.token # NoToken /\ r.token.len # Digits) =>
       ~ (r.pc = "llm" \/ r.privileged)

\* the code view of the login tab is shown
LoginOtpView == tab = "login" /\ loginStep = "otp"

\* C26: the code view of the login opens only at the end of a handleLogin run,
\* with the email and password that run checked and issued the code for; they
\* stay as they are while the view is shown, and handleLoginOtpVerify runs on
\* that view with them.
C26_LoginUsesCheckedCredentials ==
  [][ /\ (~ LoginOtpView /\ LoginOtpView') =>
           /\ pc = "login_sendotp" /\ precheckOk /\ otpIssued'
           /\ email' = cap.email /\ password' = cap.password
      /\ (LoginOtpView /\ LoginOtpView') => (email' = email /\ password' = password)
      /\ (pc = "idle" /\ pc' = "otp_verify") =>
           (LoginOtpView /\ cap'.email = email /\ cap'.password = password) ]_vars

\* signupData is set and holds the email e
SignupDataFor(data, e) == data # {} /\ \A d \in data : d.email = e

C28_SecretOnlyIfStored ==
  [][ \A r \in NewAnswers : r.action = "setup" =>
        /\ r.resp.status = 200 =>
             /\ r.resp.body = "secret,qrCodeUrl" /\ r.resp.secret \in Secrets
             /\ \E row \in OwnRow(mfa_secrets', r.user) :
                  /\ row.secret # r.resp.secret
                  /\ decryptSecret(row.secret) = r.resp.secret
        /\ r.resp.status # 200 =>
             /\ r.resp = Response(500, "error:Failed to setup MFA")
             /\ mfa_secrets' = mfa_secrets ]_vars

\* C28 witness: a setup was answered 500 and the caller's enabled record is there
C28_Witness ==
  \E r \in reqs : /\ r.action = "setup" /\ r.pc = "done"
                  /\ r.resp = Response(500, "error:Failed to setup MFA")
                  /\ Enabled(mfa_secrets, r.user)

\* C29: a send-otp request goes on to the mail service only after its row was
\* inserted, and at the step that mails a code a row with that code is stored
\* for the lower-cased email and the type of the request.
C29_EmailedCodeIsStored ==
  [][ /\ \A q \in otpReqs' \ otpReqs :
           q.pc = "send" =>
              \E row \in RowsOfKey(email_otp', OtpKeyOf(q)) :
                 /\ row.otp_code = q.otpCode
                 /\ CopiesIn(row, email_otp') > CopiesIn(row, email_otp)
      /\ (otpAnswer'.op = "send" /\ otpAnswer'.mailed) =>
           \A q \in otpReqs \ otpReqs' :
              q.pc = "send" =>
                 \E row \in RowsOfKey(email_otp, OtpKeyOf(q)) : row.otp_code = q.otpCode ]_vars

\* every request of the Tutor page that found the record enabled was refused
TutorEnabledNeverServed ==
  \A r \in reqs : (r.action = "gated" /\ r.sawEnabled) =>
     (r.pc = "done" /\ r.resp.status = 403 /\ ~ r.privileged)

\* C30: a request of the Tutor page that finds the caller's record enabled is not
\* refused for a missing X-MFA-Token.
C30_TutorPassesGate ==
  \A r \in reqs :
    (r.action = "gated" /\ r.sawEnabled /\ r.pc = "done") =>
       r.resp # Response(403, "error:MFA token required for this operation")

====
